---- MODULE Spec2Model ----
(***************************************************************************)
(* The prompt interception controller of the browser extension             *)
(* (browser-extension/src/shared/content-core.js, class ContentCore) with  *)
(* the PII detector, the variant modal and the API client it drives.       *)
(* One ContentCore instance on one input surface; every action is one      *)
(* JavaScript task (a listener or a promise continuation run to its next   *)
(* suspension point).                                                      *)
(***************************************************************************)
EXTENDS Integers, Sequences, FiniteSets, TLC

(***************************************************************************)
(* Bounds of the model.                                                    *)
(***************************************************************************)
MaxAttempts == 2
MaxVariants == 3
MaxTicks == 2
StartClock == 5000
MaxMatches == 3

(***************************************************************************)
(* Program constants.                                                      *)
(***************************************************************************)
DUPLICATE_WINDOW_MS == 2000
SEND_DELAY_MS == 100
MIN_PROMPT_LENGTH == 10
MAX_EXAMPLES == 2
VARIANT_COUNT == 3
MAX_SCORE == 100

(***************************************************************************)
(* Text.  A string is its non-blank body and whether blanks surround it;   *)
(* trim() strips the surrounding blanks.  Null is JavaScript's null.       *)
(***************************************************************************)
Null == [null |-> TRUE]
Text(b, p) == [body |-> b, pad |-> p]
EmptyText == Text("", FALSE)
Trim(t) == [t EXCEPT !.pad = FALSE]
Length(t) == Len(t.body) + (IF t.pad THEN 2 ELSE 0)
Truthy(t) == t # Null /\ Length(t) > 0

ShortBody == "at 1.1.1.1"
CleanBody == "summarize the report"
EmailBody == "mail bob@corp.com"
RewriteA == "Summarize the report in five bullets"

UserBodies == {"", ShortBody, CleanBody, EmailBody}
UserTexts == {Text(b, FALSE) : b \in UserBodies} \cup {Text(CleanBody, TRUE)}

(***************************************************************************)
(* PIIDetector: the patterns in declaration order, and what each regular   *)
(* expression matches in the texts of the model.                           *)
(***************************************************************************)
PatternKeys == <<"email", "phone", "ssn", "creditCard", "ipAddress", "apiKey", "name">>

PatternType(k) ==
  CASE k = "email" -> "Email Address"
    [] k = "phone" -> "Phone Number"
    [] k = "ssn" -> "Social Security Number"
    [] k = "creditCard" -> "Credit Card Number"
    [] k = "ipAddress" -> "IP Address"
    [] k = "apiKey" -> "API Key/Token"
    [] OTHER -> "Personal Name"

PatternRisk(k) ==
  CASE k \in {"email", "phone", "ssn", "creditCard", "apiKey"} -> "high"
    [] OTHER -> "medium"

\* A text told by what the patterns match in it: the patterns of fired
\* match n times each, and tag tells the matched strings of one such text
\* from those of another.
ProbeBody == "probe text with matches"
ProbeTags == {"x", "y"}
ProbeText(fired, n, tag) ==
  [body |-> ProbeBody, pad |-> FALSE, fired |-> fired, n |-> n, tag |-> tag]

PatternKeySet == {PatternKeys[i] : i \in 1..Len(PatternKeys)}

ProbeTexts ==
  {ProbeText(fired, n, tag) : fired \in SUBSET PatternKeySet, n \in 1..MaxMatches,
                              tag \in ProbeTags}

RegexMatches(k, t) ==
  IF "fired" \in DOMAIN t
  THEN IF k \in t.fired THEN [i \in 1..t.n |-> <<k, t.tag, i>>] ELSE <<>>
  ELSE CASE k = "email" /\ t.body = EmailBody -> <<"bob@corp.com">>
         [] k = "ipAddress" /\ t.body = ShortBody -> <<"1.1.1.1">>
         [] OTHER -> <<>>

Slice2(s) == SubSeq(s, 1, IF Len(s) < MAX_EXAMPLES THEN Len(s) ELSE MAX_EXAMPLES)

\* The tier of the last pattern that matched, whatever came before.
RaiseRisk_LastWins(level, risk) == risk

RaiseRisk(level, risk) ==
  IF risk = "high" /\ level # "high" THEN "high"
  ELSE IF risk = "medium" /\ level = "low" THEN "medium"
  ELSE level

RECURSIVE DetectFrom(_, _, _, _)
DetectFrom(t, i, findings, level) ==
  IF i > Len(PatternKeys)
  THEN [hasPII |-> Len(findings) > 0,
        riskLevel |-> IF Len(findings) > 0 THEN level ELSE "low",
        findings |-> findings]
  ELSE LET k == PatternKeys[i]
           m == RegexMatches(k, t)
       IN IF Len(m) > 0
          THEN DetectFrom(t, i + 1,
                 Append(findings, [type |-> PatternType(k), count |-> Len(m),
                                   risk |-> PatternRisk(k), examples |-> Slice2(m)]),
                 RaiseRisk(level, PatternRisk(k)))
          ELSE DetectFrom(t, i + 1, findings, level)

Detect(t) == DetectFrom(t, 1, <<>>, "low")

(***************************************************************************)
(* What _showPIIAlert writes into the alert box (content-core.js 281-288)  *)
(* and what _handlePII sends to createAlert (lines 232-239).               *)
(***************************************************************************)
PlatformName == "chatgpt"

FindingTypes(pii) == [i \in 1..Len(pii.findings) |-> pii.findings[i].type]

\* The alert box listing the matched strings next to their kinds.
NoticeContent_WithExamples(pii) ==
  [i \in 1..Len(pii.findings) |-> <<pii.findings[i].type, pii.findings[i].examples>>]

NoticeContent(pii) == FindingTypes(pii)

AlertPayload(pii) ==
  [violationType |-> "pii_detected",
   details |-> [tool |-> PlatformName, piiTypes |-> FindingTypes(pii),
                riskLevel |-> pii.riskLevel]]

(***************************************************************************)
(* What the generation service may answer: response.json() is null (or an  *)
(* object without a variants list), or carries a list of variants.         *)
(***************************************************************************)
GeneratedVariant(i, prompt) ==
  CASE i % 3 = 1 -> [text |-> Text(RewriteA, FALSE), score |-> 85]
    [] i % 3 = 2 -> [text |-> Text(RewriteA, FALSE), score |-> 120]
    [] OTHER -> [text |-> prompt, score |-> 60]

Responses(prompt) ==
  {Null} \cup { [variants |-> [i \in 1..n |-> GeneratedVariant(i, prompt)]] : n \in 0..MaxVariants }

Features == [PII_DETECTION : BOOLEAN, PROMPT_VARIANTS : BOOLEAN,
             USAGE_LOGGING : BOOLEAN, PROMPT_HISTORY : BOOLEAN]

\* The shipped configuration (config.js 16-21) and each feature switched off alone.
FlagsOff(c) == {f \in DOMAIN c : ~c[f]}
Configs == {c \in Features : Cardinality(FlagsOff(c)) <= 1}

VARIABLES
  config,                 \* this.config.FEATURES
  inputText,              \* the text in the host's input element
  isIntercepting,         \* this.isIntercepting
  isProgrammaticTrigger,  \* this.isProgrammaticTrigger
  lastProcessedPrompt,    \* this.lastProcessedPrompt
  lastProcessedTime,      \* this.lastProcessedTime
  now,                    \* Date.now()
  ticks,                  \* how many times the clock has advanced
  pc,                     \* where the running _processPrompt is suspended
  variants,               \* data.variants of the open variant modal
  timers,                 \* pending setTimeout(() => this._triggerSend(), 100)
  attempts,               \* per intercepted submit intent: its status and scan tier
  latest,                 \* the locals and effects of the most recent attempt
  scan,                   \* piiResult of the most recent _processPrompt call
  hostEvent,              \* an unprevented submit event is on its way to the host
  CONFIG,                 \* the CONFIG of the service worker
  popup,                  \* the popup: its CONFIG, its form, its status line
  tabs,                   \* the configuration each content script has loaded
  session,                \* chrome.storage.session
  local,                  \* chrome.storage.local
  logins,                 \* how many AUTH0_LOGIN messages were handled
  callbacks,              \* the loads of auth-callback.html and their handlers
  authClient,             \* where Auth0Client.logout() is, and the session it ends
  backend,                \* the bearer tokens POST /users/logout was called with
  claude                  \* claude.js: where interceptPrompt is suspended

controllerVars ==
  <<config, inputText, isIntercepting, isProgrammaticTrigger, lastProcessedPrompt,
    lastProcessedTime, now, ticks, pc, variants, timers, attempts, latest, scan,
    hostEvent>>

configVars == <<CONFIG, popup, tabs>>

authVars == <<session, local, logins, callbacks, authClient, backend>>

vars == <<controllerVars, configVars, authVars, claude>>

(***************************************************************************)
(* The locals of a _processPrompt call and what the call has done:         *)
(* originalPrompt, finalPrompt, variantSelected, the number of variants    *)
(* shown, the alerts shown, how the getPromptVariants call went, whether   *)
(* _setInputText ran, how far _logInteraction is, the logPromptChoice      *)
(* calls made, when the duplicate window was armed, how the variant modal  *)
(* was left, whether the history call asks for a context push, the content *)
(* of the alert box shown and the alert sent to the backend.               *)
(***************************************************************************)
Locals(orig) ==
  [orig |-> orig, final |-> Null, idx |-> -1, offered |-> 0, notices |-> 0,
   gen |-> "none", wrote |-> FALSE, log |-> "none", records |-> 0, finalAt |-> 0,
   choice |-> "none", pushed |-> FALSE, notice |-> <<>>, alert |-> Null]

Attempt(status, tier) == [status |-> status, tier |-> tier, clicks |-> 0]

(***************************************************************************)
(* The other parts of the extension when the browser starts: the service   *)
(* worker has imported config.js, the popup is closed (let CONFIG = null), *)
(* no content script has asked for the configuration, both storage areas   *)
(* are empty, and no submission is being processed on claude.ai.           *)
(***************************************************************************)
Undefined == [undefined |-> TRUE]

MaxTabs == 2

\* config.js, lines 6-13.
ShippedConfig ==
  [API_URL            |-> "https://blah-subsequent-personal-synthetic.trycloudflare.com",
   AUTH0_DOMAIN       |-> "dev-y75lecimhanaeqy7.us.auth0.com",
   AUTH0_CLIENT_ID    |-> "b2Q5VZ2pv4Ve8YralLn1dUtAHeEnpJGl",
   AUTH0_API_AUDIENCE |-> "https://blah-subsequent-personal-synthetic.trycloudflare.com"]

\* config.js, lines 16-21.
ShippedFeatures ==
  [PII_DETECTION |-> TRUE, PROMPT_VARIANTS |-> TRUE, USAGE_LOGGING |-> TRUE,
   PROMPT_HISTORY |-> TRUE]

EmptyForm ==
  [API_URL |-> EmptyText, AUTH0_DOMAIN |-> EmptyText, AUTH0_CLIENT_ID |-> EmptyText,
   AUTH0_API_AUDIENCE |-> EmptyText]

ClaudeIdle ==
  [pc |-> "idle", rounds |-> 0, clicks |-> 0, delivered |-> 0, alerts |-> 0, modals |-> 0]

ExtensionStart ==
  /\ CONFIG = ShippedConfig
  /\ popup = [CONFIG |-> Null, form |-> EmptyForm, status |-> "", sent |-> Null]
  /\ tabs = [t \in 1..MaxTabs |-> Null]
  /\ session = [auth0_state |-> Undefined]
  /\ local = [auth0_token |-> Undefined, auth0_token_expiry |-> Undefined]
  /\ logins = 0
  /\ callbacks = <<>>
  /\ authClient = [pc |-> "idle", ended |-> Undefined]
  /\ backend = {}
  /\ claude = ClaudeIdle

\* The state of a ContentCore that has just been constructed and initialized.
ControllerStart ==
  /\ config \in Configs
  /\ inputText = EmptyText
  /\ isIntercepting = FALSE
  /\ isProgrammaticTrigger = FALSE
  /\ lastProcessedPrompt = Null
  /\ lastProcessedTime = 0
  /\ now = StartClock
  /\ ticks = 0
  /\ pc = "idle"
  /\ variants = <<>>
  /\ timers = {}
  /\ attempts = <<>>
  /\ latest = Locals(Null)
  /\ scan = Null
  /\ hostEvent = FALSE

\* The other parts of the extension not running: the service worker asleep,
\* the popup closed, no callback page, no tab on claude.ai.
ExtensionIdle ==
  /\ CONFIG = Null
  /\ popup = Null
  /\ tabs = Null
  /\ session = Null
  /\ local = Null
  /\ logins = Null
  /\ callbacks = Null
  /\ authClient = Null
  /\ backend = Null
  /\ claude = Null

Init == ControllerStart /\ ExtensionIdle

Cur == Len(attempts)

(***************************************************************************)
(* The host page: a submit event that no listener prevented reaches the    *)
(* host, which sends a non-blank input and empties the input element.      *)
(***************************************************************************)
HostSends(t) == t.body # ""

HostHandlesEvent ==
  /\ hostEvent
  /\ hostEvent' = FALSE
  /\ inputText' = IF HostSends(inputText) THEN EmptyText ELSE inputText
  /\ UNCHANGED <<configVars, authVars, claude, scan, config, isIntercepting, isProgrammaticTrigger, lastProcessedPrompt,
                 lastProcessedTime, now, ticks, pc, variants, timers, attempts, latest>>

(***************************************************************************)
(* _handleInteraction, lines 124-149: the guards before the interception.  *)
(***************************************************************************)
OriginalPrompt == Trim(inputText)

IsDuplicate_ShortWindow ==
  /\ OriginalPrompt = lastProcessedPrompt
  /\ (now - lastProcessedTime) < SEND_DELAY_MS

IsDuplicate ==
  /\ OriginalPrompt = lastProcessedPrompt
  /\ (now - lastProcessedTime) < DUPLICATE_WINDOW_MS

Intercepts ==
  /\ ~isIntercepting
  /\ Truthy(OriginalPrompt)
  /\ ~isProgrammaticTrigger
  /\ ~IsDuplicate

\* isProgrammaticTrigger after a call that returned before intercepting:
\* only line 137 clears it, and lines 125 and 131 return before it.
FlagAfterReturn(intercepting, flag) ==
  IF ~intercepting /\ Truthy(OriginalPrompt) THEN FALSE ELSE flag

(***************************************************************************)
(* _processPrompt: the decisions.                                          *)
(***************************************************************************)
\* Line 170 without the feature flag.
ShouldBlock_IgnoresFlag(cfg, pii) == pii.hasPII /\ pii.riskLevel = "high"

ShouldBlock_Medium(cfg, pii) == cfg.PII_DETECTION /\ pii.hasPII /\ pii.riskLevel = "medium"

ShouldBlock(cfg, pii) == cfg.PII_DETECTION /\ pii.hasPII /\ pii.riskLevel = "high"

WantsVariants_AtLeast(cfg, prompt) ==
  cfg.PROMPT_VARIANTS /\ Length(prompt) >= MIN_PROMPT_LENGTH

WantsVariants(cfg, prompt) == cfg.PROMPT_VARIANTS /\ Length(prompt) > MIN_PROMPT_LENGTH

HasVariants(data) == data # Null /\ Len(data.variants) > 0

RECURSIVE FindIndexFrom(_, _, _)
FindIndexFrom(vs, sel, i) ==
  IF i > Len(vs) THEN -1
  ELSE IF vs[i].text = sel THEN i - 1
  ELSE FindIndexFrom(vs, sel, i + 1)

\* The position counted from 1 instead of the 0-based index.
FindIndex_OneBased(vs, sel) ==
  IF \E i \in 1..Len(vs) : vs[i].text = sel
  THEN CHOOSE i \in 1..Len(vs) : vs[i].text = sel /\ \A j \in 1..(i - 1) : vs[j].text # sel
  ELSE -1

FindIndex(vs, sel) == FindIndexFrom(vs, sel, 1)

\* Lines 195-201 without the findIndex of line 200.
Decide_NoIndex(l, vs, selection) ==
  IF Truthy(selection) /\ selection # l.orig
  THEN [l EXCEPT !.final = selection, !.wrote = TRUE]
  ELSE [l EXCEPT !.final = l.orig]

\* Line 195 without its comparison with the original prompt.
Decide_Unchecked(l, vs, selection) ==
  IF Truthy(selection)
  THEN [l EXCEPT !.final = selection, !.idx = FindIndex(vs, selection), !.wrote = TRUE]
  ELSE [l EXCEPT !.final = l.orig]

\* lines 176-178 and 195-201: the decision made of what the modal resolved with.
Decide(l, vs, selection) ==
  IF Truthy(selection) /\ selection # l.orig
  THEN [l EXCEPT !.final = selection, !.idx = FindIndex(vs, selection), !.wrote = TRUE]
  ELSE [l EXCEPT !.final = l.orig]

\* lines 176-178: no variant was shown, the original prompt is the final one.
KeptOriginal(l) == [l EXCEPT !.final = l.orig]

\* _logInteraction up to its first await (lines 316-326, 338-339).
LogStart(cfg) ==
  IF ~cfg.USAGE_LOGGING THEN "skipped"
  ELSE IF cfg.PROMPT_HISTORY THEN "history"
  ELSE "usage"

\* The handler of POST /prompt-variants/log stores the chosen variant in the
\* context store when a variant was accepted (SUPERMEMORY_HANDOFF.md, steps
\* 4 and 5); that handler is not part of the sources.
BackendPushes(variantIndex) == variantIndex # -1

Logged(l) ==
  [l EXCEPT !.log = LogStart(config),
            !.records = IF LogStart(config) = "history" THEN @ + 1 ELSE @,
            !.pushed = LogStart(config) = "history" /\ BackendPushes(l.idx)]

\* _logInteraction awaited and not caught: the attempt waits on the logs.
Finalize_AwaitsLog(seq, l) ==
  /\ latest' = [Logged(l) EXCEPT !.finalAt = now]
  /\ attempts' = seq
  /\ isIntercepting' = TRUE
  /\ pc' = "idle"
  /\ variants' = <<>>
  /\ UNCHANGED <<lastProcessedPrompt, lastProcessedTime, timers>>

\* lines 213-223 and the finally of _handleInteraction, for the last attempt
\* of seq, whose locals are l.
Finalize(seq, l) ==
  /\ latest' = [Logged(l) EXCEPT !.finalAt = now]
  /\ attempts' = [seq EXCEPT ![Len(seq)].status = "finalizing"]
  /\ lastProcessedPrompt' = l.final
  /\ lastProcessedTime' = now
  /\ timers' = timers \cup {[att |-> Len(seq), due |-> now + SEND_DELAY_MS]}
  /\ isIntercepting' = FALSE
  /\ pc' = "idle"
  /\ variants' = <<>>

(***************************************************************************)
(* The user edits the input element.                                       *)
(***************************************************************************)
UserTypes ==
  /\ ~hostEvent
  /\ \E t \in UserTexts : t # inputText /\ inputText' = t
  /\ UNCHANGED <<configVars, authVars, claude, scan, config, isIntercepting, isProgrammaticTrigger, lastProcessedPrompt,
                 lastProcessedTime, now, ticks, pc, variants, timers, attempts, latest,
                 hostEvent>>

(***************************************************************************)
(* A submit intent of the user (Enter in the input, or a click on the send *)
(* button) that _handleInteraction returns from without preventing it:     *)
(* lines 125, 131, 136-139 and 141-144.                                    *)
(***************************************************************************)
SubmitPassesThrough ==
  /\ ~hostEvent
  /\ ~Intercepts
  /\ isProgrammaticTrigger' = FlagAfterReturn(isIntercepting, isProgrammaticTrigger)
  /\ hostEvent' = TRUE
  /\ UNCHANGED <<configVars, authVars, claude, scan, config, inputText, isIntercepting, lastProcessedPrompt, lastProcessedTime,
                 now, ticks, pc, variants, timers, attempts, latest>>

(***************************************************************************)
(* A submit intent that is intercepted (lines 146-155) and whose scan is   *)
(* high-risk: _handlePII shows the alert and waits for its OK button.      *)
(***************************************************************************)
SubmitBlocked ==
  /\ ~hostEvent
  /\ Intercepts
  /\ Cur < MaxAttempts
  /\ LET pii == Detect(OriginalPrompt)
     IN /\ ShouldBlock(config, pii)
        /\ attempts' = Append(attempts, Attempt("blocked", pii.riskLevel))
        /\ scan' = pii
  /\ latest' = [Locals(OriginalPrompt) EXCEPT !.notices = 1,
                                             !.notice = NoticeContent(Detect(OriginalPrompt))]
  /\ isIntercepting' = TRUE
  /\ pc' = "piiAlert"
  /\ UNCHANGED <<configVars, authVars, claude, config, inputText, isProgrammaticTrigger, lastProcessedPrompt,
                 lastProcessedTime, now, ticks, variants, timers, hostEvent>>

(***************************************************************************)
(* Intercepted, not blocked, long enough for variants: the loading modal   *)
(* is shown and getPromptVariants is in flight (lines 180-185).            *)
(***************************************************************************)
SubmitFetchesVariants ==
  /\ ~hostEvent
  /\ Intercepts
  /\ Cur < MaxAttempts
  /\ LET pii == Detect(OriginalPrompt)
     IN /\ ~ShouldBlock(config, pii)
        /\ WantsVariants(config, OriginalPrompt)
        /\ attempts' = Append(attempts, Attempt("awaiting-variants", pii.riskLevel))
        /\ scan' = pii
  /\ latest' = [Locals(OriginalPrompt) EXCEPT !.gen = "pending"]
  /\ isIntercepting' = TRUE
  /\ pc' = "awaitVariants"
  /\ UNCHANGED <<configVars, authVars, claude, config, inputText, isProgrammaticTrigger, lastProcessedPrompt,
                 lastProcessedTime, now, ticks, variants, timers, hostEvent>>

(***************************************************************************)
(* Intercepted, not blocked, variants skipped: _processPrompt runs to its  *)
(* end without suspending (lines 176-180, 213-223, 160-162).               *)
(***************************************************************************)
SubmitSkipsVariants ==
  /\ ~hostEvent
  /\ Intercepts
  /\ Cur < MaxAttempts
  /\ LET pii == Detect(OriginalPrompt)
     IN /\ ~ShouldBlock(config, pii)
        /\ ~WantsVariants(config, OriginalPrompt)
        /\ Finalize(Append(attempts, Attempt("scanning", pii.riskLevel)),
                    KeptOriginal(Locals(OriginalPrompt)))
        /\ scan' = pii
  /\ UNCHANGED <<configVars, authVars, claude, config, inputText, isProgrammaticTrigger, now, ticks, hostEvent>>

(***************************************************************************)
(* _triggerSend, lines 349-358: the flag is raised and the send button is  *)
(* clicked; the click listener runs _handleInteraction inside the click,   *)
(* and the host handles the click it does not prevent.                     *)
(***************************************************************************)
TriggerSend(intercepting) ==
  /\ isProgrammaticTrigger' = FlagAfterReturn(intercepting, TRUE)
  /\ hostEvent' = TRUE

Clicked(a, status) == [a EXCEPT !.clicks = @ + 1, !.status = status]

(***************************************************************************)
(* Intercepted, and _processPrompt throws: the catch block submits through *)
(* _submitOriginal while the lock is still held, then the finally block    *)
(* frees it (lines 154-162, 360-365).                                      *)
(***************************************************************************)
SubmitThrows ==
  /\ ~hostEvent
  /\ Intercepts
  /\ Cur < MaxAttempts
  /\ attempts' = Append(attempts, Clicked(Attempt("scanning", "none"), "failed"))
  /\ latest' = Locals(OriginalPrompt)
  /\ scan' = Null
  /\ TriggerSend(TRUE)
  /\ isIntercepting' = FALSE
  /\ UNCHANGED <<configVars, authVars, claude, config, inputText, lastProcessedPrompt, lastProcessedTime, now, ticks, pc,
                 variants, timers>>

(***************************************************************************)
(* The release timer of a finalized attempt fires (lines 221-223).         *)
(***************************************************************************)
TimerFires ==
  /\ ~hostEvent
  /\ \E t \in timers :
       /\ now >= t.due
       /\ timers' = timers \ {t}
       /\ attempts' = [attempts EXCEPT ![t.att] = Clicked(@, "released")]
  /\ TriggerSend(isIntercepting)
  /\ UNCHANGED <<configVars, authVars, claude, scan, config, inputText, isIntercepting, lastProcessedPrompt, lastProcessedTime,
                 now, ticks, pc, variants, latest>>

(***************************************************************************)
(* _handlePII, lines 226-243: the OK button resolves the alert's promise   *)
(* and createAlert is sent; its answer, good or bad, ends the attempt.     *)
(***************************************************************************)
AlertAcknowledged ==
  /\ ~hostEvent
  /\ pc = "piiAlert"
  /\ pc' = "alertLog"
  /\ latest' = [latest EXCEPT !.alert = AlertPayload(scan)]
  /\ UNCHANGED <<configVars, authVars, claude, scan, config, inputText, isIntercepting, isProgrammaticTrigger,
                 lastProcessedPrompt, lastProcessedTime, now, ticks, variants, timers,
                 attempts, hostEvent>>

\* The end of a blocked attempt arming the duplicate window as lines 216-218
\* do for a finalized one.
AlertLogged_Arms ==
  /\ ~hostEvent
  /\ pc = "alertLog"
  /\ pc' = "idle"
  /\ isIntercepting' = FALSE
  /\ lastProcessedPrompt' = latest.orig
  /\ lastProcessedTime' = now
  /\ UNCHANGED <<configVars, authVars, claude, scan, config, inputText, isProgrammaticTrigger, now, ticks, variants, timers,
                 attempts, latest, hostEvent>>

AlertLogged ==
  /\ ~hostEvent
  /\ pc = "alertLog"
  /\ pc' = "idle"
  /\ isIntercepting' = FALSE
  /\ UNCHANGED <<configVars, authVars, claude, scan, config, inputText, isProgrammaticTrigger, lastProcessedPrompt,
                 lastProcessedTime, now, ticks, variants, timers, attempts, latest,
                 hostEvent>>

(***************************************************************************)
(* getPromptVariants resolves (lines 185-206): a non-empty list opens the  *)
(* variant modal, anything else closes the loading modal and finalizes.    *)
(***************************************************************************)
Presented(l, data) == [l EXCEPT !.gen = "shown", !.offered = Len(data.variants)]

VariantsArrive ==
  /\ ~hostEvent
  /\ pc = "awaitVariants"
  /\ \E data \in Responses(latest.orig) :
       /\ HasVariants(data)
       /\ latest' = Presented(latest, data)
       /\ variants' = data.variants
  /\ attempts' = [attempts EXCEPT ![Cur].status = "awaiting-choice"]
  /\ pc' = "awaitChoice"
  /\ UNCHANGED <<configVars, authVars, claude, scan, config, inputText, isIntercepting, isProgrammaticTrigger,
                 lastProcessedPrompt, lastProcessedTime, now, ticks, timers, hostEvent>>

NoVariantsArrive ==
  /\ ~hostEvent
  /\ pc = "awaitVariants"
  /\ \E data \in Responses(latest.orig) :
       /\ ~HasVariants(data)
       /\ Finalize(attempts, [KeptOriginal(latest) EXCEPT !.gen = "empty"])
  /\ UNCHANGED <<configVars, authVars, claude, scan, config, inputText, isProgrammaticTrigger, now, ticks, hostEvent>>

\* The rejection not caught at line 207: it reaches the catch of
\* _handleInteraction.
VariantsFail_Propagates ==
  /\ ~hostEvent
  /\ pc = "awaitVariants"
  /\ attempts' = [attempts EXCEPT ![Cur] = Clicked(@, "failed")]
  /\ latest' = [latest EXCEPT !.gen = "rejected"]
  /\ TriggerSend(TRUE)
  /\ isIntercepting' = FALSE
  /\ pc' = "idle"
  /\ UNCHANGED <<configVars, authVars, claude, scan, config, inputText, lastProcessedPrompt, lastProcessedTime, now, ticks,
                 variants, timers>>

(***************************************************************************)
(* getPromptVariants rejects (lines 207-210): a network error, an HTTP     *)
(* error status, a missing token, or a body that is not JSON.              *)
(***************************************************************************)
VariantsFail ==
  /\ ~hostEvent
  /\ pc = "awaitVariants"
  /\ Finalize(attempts, [KeptOriginal(latest) EXCEPT !.gen = "rejected"])
  /\ UNCHANGED <<configVars, authVars, claude, scan, config, inputText, isProgrammaticTrigger, now, ticks, hostEvent>>

(***************************************************************************)
(* The variant modal resolves (variant-modal.js 785-826) and               *)
(* _processPrompt goes on at line 195.                                     *)
(***************************************************************************)
ModalResolves(selection, how) ==
  LET l == [Decide(latest, variants, selection) EXCEPT !.choice = how]
  IN /\ inputText' = IF l.wrote THEN l.final ELSE inputText
     /\ Finalize(attempts, l)
     /\ UNCHANGED <<configVars, authVars, claude, scan, config, isProgrammaticTrigger, now, ticks, hostEvent>>

SelectsVariant ==
  /\ ~hostEvent
  /\ pc = "awaitChoice"
  /\ \E i \in 1..Len(variants) : ModalResolves(variants[i].text, "picked")

KeepsOriginal ==
  /\ ~hostEvent
  /\ pc = "awaitChoice"
  /\ ModalResolves(latest.orig, "kept")

(***************************************************************************)
(* _logInteraction, lines 321-346: the awaited calls resolve, or one of    *)
(* them rejects and the rejection is caught and logged.  The class in      *)
(* api-client.js defines no logPromptChoice, and the APIClient built at    *)
(* line 12 is given no auth0Client: a TypeError thrown by the call is one  *)
(* of the rejections, caught at line 344 like any other.                   *)
(***************************************************************************)
LogSettles ==
  /\ ~hostEvent
  /\ latest.log \in {"history", "usage"}
  /\ \E ok \in BOOLEAN : latest' = [latest EXCEPT !.log = IF ok THEN "done" ELSE "failed"]
  /\ UNCHANGED <<configVars, authVars, claude, scan, config, inputText, isIntercepting, isProgrammaticTrigger,
                 lastProcessedPrompt, lastProcessedTime, now, ticks, pc, variants, timers,
                 attempts, hostEvent>>

(***************************************************************************)
(* Time passes; a due timer fires before time passes further.              *)
(***************************************************************************)
Delays == {SEND_DELAY_MS, DUPLICATE_WINDOW_MS - SEND_DELAY_MS}

Tick ==
  /\ ~hostEvent
  /\ \E d \in Delays :
       /\ ticks < MaxTicks
       /\ timers # {} \/ lastProcessedPrompt # Null \/ pc \in {"awaitVariants", "awaitChoice"}
       /\ \A t \in timers : now + d <= t.due
       /\ now' = now + d
       /\ ticks' = ticks + 1
  /\ UNCHANGED <<configVars, authVars, claude, scan, config, inputText, isIntercepting, isProgrammaticTrigger,
                 lastProcessedPrompt, lastProcessedTime, pc, variants, timers, attempts,
                 latest, hostEvent>>

\* A listener runs to completion: every action but HostHandlesEvent waits
\* for the host to have handled the event it was left.
Next ==
  \/ HostHandlesEvent
  \/ UserTypes
  \/ SubmitPassesThrough
  \/ SubmitBlocked
  \/ SubmitFetchesVariants
  \/ SubmitSkipsVariants
  \/ SubmitThrows
  \/ TimerFires
  \/ AlertAcknowledged
  \/ AlertLogged
  \/ VariantsArrive
  \/ NoVariantsArrive
  \/ VariantsFail
  \/ SelectsVariant
  \/ KeepsOriginal
  \/ LogSettles
  \/ Tick

Spec == Init /\ [][Next]_vars

(***************************************************************************)
(* The scan on its own: the input holds any text, told by what the         *)
(* patterns match in it, and the user submits it; the attempt goes as far  *)
(* as the scan decides (blocked with its alert, or on to the variants or   *)
(* the finalization).                                                      *)
(***************************************************************************)
ScanInit ==
  /\ ExtensionIdle
  /\ config \in Configs
  /\ inputText \in ProbeTexts
  /\ isIntercepting = FALSE
  /\ isProgrammaticTrigger = FALSE
  /\ lastProcessedPrompt = Null
  /\ lastProcessedTime = 0
  /\ now = StartClock
  /\ ticks = 0
  /\ pc = "idle"
  /\ variants = <<>>
  /\ timers = {}
  /\ attempts = <<>>
  /\ latest = Locals(Null)
  /\ scan = Null
  /\ hostEvent = FALSE

ScanNext ==
  \/ SubmitBlocked
  \/ SubmitFetchesVariants
  \/ SubmitSkipsVariants
  \/ AlertAcknowledged
  \/ AlertLogged

ScanSpec == ScanInit /\ [][ScanNext]_vars

(***************************************************************************)
(* What the event loop guarantees: a dispatched event is handled, a due    *)
(* timer fires, time passes.  Nothing obliges the service to answer or the *)
(* user to act.                                                            *)
(***************************************************************************)
FairSpec ==
  /\ Spec
  /\ WF_vars(HostHandlesEvent)
  /\ WF_vars(TimerFires)
  /\ WF_vars(Tick)

(***************************************************************************)
(* Vocabulary of the properties.                                           *)
(***************************************************************************)
HighRisk(t) == Detect(Trim(t)).riskLevel = "high"

LoggingOn == config.USAGE_LOGGING /\ config.PROMPT_HISTORY

\* A step in which a submit intent of the user went on to the host: no
\* attempt was started and no release timer was consumed.
UserIntentPassed ==
  /\ ~hostEvent
  /\ hostEvent'
  /\ attempts' = attempts
  /\ timers' = timers

\* A step in which a submit intent was intercepted as a new attempt.
UserIntentIntercepted == Len(attempts') = Len(attempts) + 1

(***************************************************************************)
(* C1.  Single-flight: no attempt is begun while an earlier attempt has    *)
(* not reached released, blocked or failed; an attempt whose release timer *)
(* is still pending is not yet released.  So every attempt but the last    *)
(* one is terminal.                                                        *)
(***************************************************************************)
C1_SingleFlight ==
  \A i \in 1..(Len(attempts) - 1) : attempts[i].status \in {"released", "blocked", "failed"}

(***************************************************************************)
(* C2.  With PII detection on, a high-risk text in the input is never      *)
(* submitted to the host: no submit event reaches the host while the input *)
(* holds a high-risk text.  Stated for the runs in which no attempt has    *)
(* failed, so that the exception path of C9 plays no part.                 *)
(***************************************************************************)
C2_HighRiskNeverSubmitted ==
  (config.PII_DETECTION /\ \A i \in 1..Cur : attempts[i].status # "failed")
    => ~(hostEvent /\ HighRisk(inputText))

(***************************************************************************)
(* C3.  With PII detection on, an attempt whose scan is high-risk is       *)
(* blocked and stays so: it is never clicked through and has no release    *)
(* timer, it fetched no variants, it did not arm the duplicate window, and *)
(* its block notice was shown exactly once.                                *)
(***************************************************************************)
C3_HighRiskBlockedOnce ==
  config.PII_DETECTION =>
    /\ \A i \in 1..Cur :
         attempts[i].tier = "high" =>
           /\ attempts[i].status = "blocked"
           /\ attempts[i].clicks = 0
           /\ \A t \in timers : t.att # i
    /\ (Cur > 0 /\ attempts[Cur].tier = "high") =>
         /\ latest.notices = 1
         /\ latest.gen = "none"
         /\ latest.final = Null
         /\ latest.finalAt = 0

C3_Witness ==
  /\ config.PII_DETECTION
  /\ Cur > 0
  /\ attempts[Cur].tier = "high"
  /\ attempts[Cur].status = "blocked"
  /\ pc = "idle"
  /\ ~isIntercepting

(***************************************************************************)
(* C4.  When getPromptVariants rejects or answers without variants, the    *)
(* attempt is finalized with the original text and index -1: its release   *)
(* timer is armed or has fired, no notice was shown, no variant was        *)
(* presented and the input was not written.                                *)
(***************************************************************************)
C4_GenerationFailureFailsOpen ==
  (Cur > 0 /\ latest.gen \in {"rejected", "empty"}) =>
    /\ attempts[Cur].status \in {"finalizing", "released"}
    /\ attempts[Cur].status = "finalizing" => \E t \in timers : t.att = Cur
    /\ latest.final = latest.orig
    /\ latest.idx = -1
    /\ latest.notices = 0
    /\ latest.offered = 0
    /\ ~latest.wrote

C4_Witness ==
  /\ Cur > 0
  /\ latest.gen = "rejected"
  /\ attempts[Cur].status = "released"
  /\ attempts[Cur].clicks = 1

(***************************************************************************)
(* C5.  The generation call times out: an attempt that waits for           *)
(* getPromptVariants eventually stops waiting, also when the service never *)
(* answers.                                                                *)
(***************************************************************************)
C5_GenerationTimesOut == (pc = "awaitVariants") ~> (pc # "awaitVariants")

(***************************************************************************)
(* C6.  While the input holds the final text of the last finalized attempt *)
(* and less than 2000 ms have passed since it was finalized, no step       *)
(* starts an attempt (so nothing is scanned) or makes a history call: the  *)
(* text has its one attempt and its one history call.                      *)
(***************************************************************************)
C6_DuplicateSuppressed ==
  [][ ( /\ Cur > 0
        /\ attempts[Cur].status \in {"finalizing", "released"}
        /\ Trim(inputText) = latest.final
        /\ now - latest.finalAt < DUPLICATE_WINDOW_MS )
      => /\ Len(attempts') = Len(attempts)
         /\ latest'.orig = latest.orig
         /\ latest'.records = latest.records
         /\ latest.records = IF LoggingOn THEN 1 ELSE 0 ]_vars

\* A submit event of the user passed through 200 ms after the finalization:
\* the release timer fired at 100 ms, so this event is not the timer's click.
C6_Witness ==
  /\ Cur = 1
  /\ attempts[1].status = "released"
  /\ attempts[1].clicks = 1
  /\ Trim(inputText) = latest.final
  /\ now - latest.finalAt = 2 * SEND_DELAY_MS
  /\ hostEvent
  /\ LoggingOn
  /\ latest.records = 1

(***************************************************************************)
(* C7.  The variant modal presents exactly 3 variants, each with a score   *)
(* between 0 and 100; a response with 1 or 2 variants is not presented.    *)
(***************************************************************************)
C7_ExactlyThreeVariants ==
  pc = "awaitChoice" =>
    /\ Len(variants) = VARIANT_COUNT
    /\ \A i \in 1..Len(variants) : variants[i].score \in 0..MAX_SCORE

(***************************************************************************)
(* C8.  With history logging on, an attempt that ended released or blocked *)
(* has made exactly one history call (failed attempts are the case of C9). *)
(***************************************************************************)
C8_OneRecordPerTerminalAttempt ==
  (LoggingOn /\ Cur > 0 /\ pc = "idle" /\ ~isIntercepting
     /\ attempts[Cur].status \in {"released", "blocked"})
    => latest.records = 1

(***************************************************************************)
(* C9.  A failed attempt has released the caller: the send button was      *)
(* clicked with the input unmodified, the lock is free, and, with history  *)
(* logging on, a history call was made for it.                             *)
(***************************************************************************)
C9_FailedAttemptReleasedAndRecorded ==
  (Cur > 0 /\ attempts[Cur].status = "failed") =>
    /\ attempts[Cur].clicks = 1
    /\ ~latest.wrote
    /\ ~isIntercepting
    /\ LoggingOn => latest.records = 1

(***************************************************************************)
(* C10.  Logging never holds an attempt back: whenever the logging calls   *)
(* are outstanding or have failed, the attempt is already finalized with   *)
(* its chosen text, the lock is free, its release timer is due 100 ms      *)
(* after the finalization or has fired, and the attempt has not failed.    *)
(***************************************************************************)
C10_LoggingNeverBlocksRelease ==
  (Cur > 0 /\ latest.log \in {"history", "usage", "failed"}) =>
    /\ attempts[Cur].status \in {"finalizing", "released"}
    /\ attempts[Cur].status = "finalizing" =>
         \E t \in timers : t.att = Cur /\ t.due = latest.finalAt + SEND_DELAY_MS
    /\ latest.final # Null
    /\ lastProcessedPrompt = latest.final
    /\ ~isIntercepting

\* Released while logPromptChoice has not returned.
C10_Witness ==
  /\ Cur > 0
  /\ attempts[Cur].status = "released"
  /\ latest.log = "history"
  /\ latest.idx >= 0

(***************************************************************************)
(* C11.  An attempt is released only after its history write has completed *)
(* or failed: no released attempt has its logging calls outstanding.       *)
(***************************************************************************)
C11_ReleaseAfterHistoryWrite ==
  (Cur > 0 /\ attempts[Cur].status = "released") => latest.log \notin {"history", "usage"}

(***************************************************************************)
(* C12.  The one programmatic submission of a finalized attempt finds the  *)
(* chosen text in the input: when the release timer clicks the send        *)
(* button, the input holds the attempt's final text, which is also the     *)
(* text the duplicate window was armed with, and it is the attempt's only  *)
(* click.                                                                  *)
(***************************************************************************)
C12_SubmitsChosenText ==
  [][ ( /\ Cur > 0
        /\ Len(attempts') = Cur
        /\ attempts[Cur].status = "finalizing"
        /\ attempts'[Cur].status = "released" )
      => /\ Trim(inputText) = latest.final
         /\ lastProcessedPrompt = latest.final
         /\ attempts'[Cur].clicks = 1 ]_vars

(***************************************************************************)
(* C13.  While the latest attempt is not yet released, blocked or failed,  *)
(* a submit intent is dropped: no step starts an attempt, and a submit     *)
(* event of the user that goes on to the host (no timer fired) leaves the  *)
(* lock, the programmatic flag, the last processed text and time, and the  *)
(* alerts and history calls of the attempt as they were.                   *)
(***************************************************************************)
C13_IntentDroppedWhileNonTerminal ==
  [][ (Cur > 0 /\ attempts[Cur].status \notin {"released", "blocked", "failed"})
      => /\ Len(attempts') = Len(attempts)
         /\ (~hostEvent /\ hostEvent' /\ timers' = timers)
              => UNCHANGED <<isIntercepting, isProgrammaticTrigger, lastProcessedPrompt,
                             lastProcessedTime, latest>> ]_vars

(***************************************************************************)
(* C14.  As claimed: an attempt that is neither blocked nor failed skips   *)
(* the generator exactly when variants are off or the prompt is shorter    *)
(* than 10 characters.                                                     *)
(***************************************************************************)
C14_SkippedBelowThreshold ==
  (Cur > 0 /\ attempts[Cur].status \notin {"blocked", "failed"}) =>
    (latest.gen = "none" <=>
       (~config.PROMPT_VARIANTS \/ Length(latest.orig) < MIN_PROMPT_LENGTH))

(***************************************************************************)
(* C14, amended.  An attempt that is neither blocked nor failed skips the  *)
(* generator exactly when variants are off or the prompt has at most 10    *)
(* characters; an attempt that skipped it is finalized with the original   *)
(* text and index -1.                                                      *)
(***************************************************************************)
C14_SkippedUpToThreshold ==
  (Cur > 0 /\ attempts[Cur].status \notin {"blocked", "failed"}) =>
    /\ latest.gen = "none" <=>
         (~config.PROMPT_VARIANTS \/ Length(latest.orig) <= MIN_PROMPT_LENGTH)
    /\ latest.gen = "none" =>
         /\ attempts[Cur].status \in {"finalizing", "released"}
         /\ latest.final = latest.orig
         /\ latest.idx = -1
         /\ latest.offered = 0

\* A prompt of exactly 10 characters, variants on, released without a fetch.
C14_Witness ==
  /\ Cur > 0
  /\ config.PROMPT_VARIANTS
  /\ Length(latest.orig) = MIN_PROMPT_LENGTH
  /\ latest.gen = "none"
  /\ attempts[Cur].status = "released"

(***************************************************************************)
(* C15.  Leaving the variant modal by Keep Original, by the close button   *)
(* or by a click on the overlay is a keep-original decision: the promise   *)
(* of show() is resolved and the modal gone, the attempt is finalized or   *)
(* released (not failed) with the original text and index -1, and the      *)
(* input was not rewritten.                                                *)
(***************************************************************************)
C15_DismissKeepsOriginal ==
  (Cur > 0 /\ latest.choice = "kept") =>
    /\ pc = "idle"
    /\ variants = <<>>
    /\ attempts[Cur].status \in {"finalizing", "released"}
    /\ latest.final = latest.orig
    /\ latest.idx = -1
    /\ ~latest.wrote
    /\ latest.gen = "shown"

C15_Witness ==
  /\ Cur > 0
  /\ latest.choice = "kept"
  /\ latest.offered = VARIANT_COUNT
  /\ attempts[Cur].status = "released"
  /\ attempts[Cur].clicks = 1

(***************************************************************************)
(* C16.  An unattended variant modal times out: an attempt that waits for  *)
(* the user's choice eventually stops waiting, also when the user never    *)
(* touches the modal.                                                      *)
(***************************************************************************)
C16_ChoiceTimesOut == (pc = "awaitChoice") ~> (pc # "awaitChoice")

C18_NoticeHidesMatches ==
  (Cur > 0 /\ attempts[Cur].status = "blocked") =>
    \A n \in 1..MaxMatches, tag \in ProbeTags :
      LET other == Detect(ProbeText(latest.orig.fired, n, tag))
      IN /\ latest.notice = NoticeContent(other)
         /\ latest.alert # Null => latest.alert = AlertPayload(other)

\* A blocked text with two kinds of findings, its alert sent.
C18_Witness ==
  /\ Cur > 0
  /\ attempts[Cur].status = "blocked"
  /\ pc = "alertLog"
  /\ latest.alert # Null
  /\ Len(latest.notice) >= 2
  /\ latest.orig.n >= 2

(***************************************************************************)
(* C19.  The decision of a finalized attempt is consistent: the index is   *)
(* -1 exactly when the final text is the original text, and otherwise it   *)
(* is a 0-based index into the variants that were offered, and the variant *)
(* at that index has the final text.                                       *)
(***************************************************************************)
C19_DecisionConsistent ==
  (Cur > 0 /\ attempts[Cur].status \in {"finalizing", "released"}) =>
    /\ latest.idx = -1 <=> latest.final = latest.orig
    /\ latest.idx # -1 =>
         /\ latest.idx \in 0..(latest.offered - 1)
         /\ GeneratedVariant(latest.idx + 1, latest.orig).text = latest.final

\* A variant picked out of several, two of which share their text.
C19_Witness ==
  /\ Cur > 0
  /\ attempts[Cur].status = "released"
  /\ latest.choice = "picked"
  /\ latest.offered >= 2
  /\ latest.idx = 0
  /\ latest.wrote

(***************************************************************************)
(* C20.  The scan of a text aggregates what the patterns matched: hasPII   *)
(* tells whether there are findings, there is one finding per pattern that *)
(* matched, with the number of its matches and at most 2 examples, the     *)
(* risk level is the highest tier among the patterns that matched (high    *)
(* over medium over low), and a text no pattern matches scans as no PII,   *)
(* low, no findings.                                                       *)
(***************************************************************************)
C20_ScanAggregation ==
  scan # Null =>
    LET t == latest.orig
        fired == {k \in PatternKeySet : Len(RegexMatches(k, t)) > 0}
        tiers == {PatternRisk(k) : k \in fired}
    IN /\ scan.hasPII <=> Len(scan.findings) > 0
       /\ Len(scan.findings) = Cardinality(fired)
       /\ \A k \in fired :
            \E i \in 1..Len(scan.findings) :
              /\ scan.findings[i].type = PatternType(k)
              /\ scan.findings[i].risk = PatternRisk(k)
              /\ scan.findings[i].count = Len(RegexMatches(k, t))
              /\ Len(scan.findings[i].examples) <= MAX_EXAMPLES
              /\ \A j \in 1..Len(scan.findings[i].examples) :
                   scan.findings[i].examples[j] = RegexMatches(k, t)[j]
       /\ scan.riskLevel = IF "high" \in tiers THEN "high"
                           ELSE IF "medium" \in tiers THEN "medium"
                           ELSE "low"
       /\ fired = {} => scan = [hasPII |-> FALSE, riskLevel |-> "low", findings |-> <<>>]

\* A text in which a high pattern and a later medium pattern match, the
\* medium one more often than examples are kept.
C20_Witness ==
  /\ scan # Null
  /\ scan.riskLevel = "high"
  /\ \E i \in 1..Len(scan.findings) :
       /\ i > 1
       /\ scan.findings[i].risk = "medium"
       /\ scan.findings[i].count > MAX_EXAMPLES
       /\ Len(scan.findings[i].examples) = MAX_EXAMPLES

(***************************************************************************)
(* C21.  An attempt is blocked exactly when PII detection is on and its    *)
(* scan is high-risk: the tier of the latest attempt is that of its scan,  *)
(* a low or medium scan is never blocked, and with PII detection off a     *)
(* high-risk prompt is not blocked either.                                 *)
(***************************************************************************)
C21_BlockedIffHighAndEnabled ==
  /\ [](\A i \in 1..Cur :
          attempts[i].status = "blocked" <=>
            (config.PII_DETECTION /\ attempts[i].tier = "high"))
  /\ [][(UserIntentIntercepted /\ attempts'[Len(attempts')].status # "failed") =>
          attempts'[Len(attempts')].tier = Detect(OriginalPrompt).riskLevel]_vars

\* PII detection off: a high-risk prompt went through the variants and was
\* released.
C21_Witness ==
  /\ ~config.PII_DETECTION
  /\ Cur > 0
  /\ attempts[Cur].tier = "high"
  /\ latest.gen = "shown"
  /\ attempts[Cur].status = "released"

(***************************************************************************)
(* C23.  With no attempt in flight, a submit intent with a non-blank text  *)
(* is let through only when its trimmed text is the final text of the      *)
(* last finalized attempt and less than 2000 ms have passed since; at      *)
(* 2000 ms or with another text it is intercepted as a new attempt.        *)
(***************************************************************************)
C23_DuplicateBoundaries ==
  [][(~isIntercepting /\ Truthy(OriginalPrompt)) =>
       /\ UserIntentPassed =>
            /\ OriginalPrompt = lastProcessedPrompt
            /\ now - lastProcessedTime < DUPLICATE_WINDOW_MS
       /\ UserIntentIntercepted =>
            \/ OriginalPrompt # lastProcessedPrompt
            \/ now - lastProcessedTime >= DUPLICATE_WINDOW_MS]_vars

(***************************************************************************)
(* C24.  A submit intent of the user whose non-blank text is not a         *)
(* duplicate inside the window never goes on to the host unless it is the  *)
(* text the controller has just scanned: no new text passes unscanned.     *)
(***************************************************************************)
C24_NoScanBypass ==
  [][(UserIntentPassed /\ Truthy(OriginalPrompt) /\ ~IsDuplicate) =>
       (scan # Null /\ OriginalPrompt = latest.orig)]_vars

(***************************************************************************)
(* C25.  isProgrammaticTrigger is false whenever no click of the           *)
(* controller is being dispatched: after _triggerSend has returned the     *)
(* flag is down again, on every path.                                      *)
(***************************************************************************)
C25_FlagDownOutsideClick == ~isProgrammaticTrigger

(***************************************************************************)
(* C26.  Once the latest attempt has ended (released, blocked and          *)
(* acknowledged, or failed) the controller is idle again: the lock is      *)
(* free and nothing makes the next submit intent with a new text skip the  *)
(* interception.                                                           *)
(***************************************************************************)
C26_IdleAfterEveryAttempt ==
  (/\ Cur > 0
   /\ attempts[Cur].status \in {"released", "blocked", "failed"}
   /\ pc = "idle"
   /\ ~hostEvent)
    => (~isIntercepting /\ ~isProgrammaticTrigger)

\* Neither a new attempt that is blocked nor a step of its alert.
BlockedAttemptStep ==
  \/ /\ Len(attempts') = Len(attempts) + 1
     /\ attempts'[Len(attempts')].status = "blocked"
  \/ pc \in {"piiAlert", "alertLog"} /\ pc' # pc

(***************************************************************************)
(* C27.  A blocked attempt leaves lastProcessedPrompt and                  *)
(* lastProcessedTime as they were, and the text it blocked is never the    *)
(* armed duplicate: submitted again at once, it is not a duplicate.        *)
(***************************************************************************)
C27_BlockedDoesNotArm ==
  /\ [][BlockedAttemptStep =>
          UNCHANGED <<lastProcessedPrompt, lastProcessedTime>>]_vars
  /\ []((Cur > 0 /\ attempts[Cur].status = "blocked") =>
          latest.orig # lastProcessedPrompt)

\* The same high-risk text submitted again after its block, scanned and
\* blocked a second time.
C27_Witness ==
  /\ Cur = 2
  /\ attempts[1].status = "blocked"
  /\ attempts[2].status = "blocked"
  /\ latest.orig = Text(EmailBody, FALSE)
  /\ pc = "idle"
  /\ lastProcessedPrompt = Null

(***************************************************************************)
(* The configuration messages.  The onMessage listener of the service      *)
(* worker answers GET_CONFIG with its CONFIG (lines 69-77).  A message     *)
(* type with no case in the switch of lines 30-134 reaches the return      *)
(* false of line 136: sendResponse is never called and the promise of the  *)
(* sender resolves with undefined.  No case assigns CONFIG.                *)
(***************************************************************************)
OnMessage(message) ==
  CASE message.type = "GET_CONFIG" -> CONFIG
    [] OTHER -> Undefined

ConfigAfter(message) == CONFIG

\* loadConfigurationForm: the form filled from the CONFIG of the popup.
FormOf(cfg) == [f \in DOMAIN EmptyForm |-> Text(cfg[f], FALSE)]

\* The save handler, lines 102-109: the trimmed fields of the form.
ConfigOf(form) == [f \in DOMAIN form |-> Trim(form[f]).body]

OfficeForm ==
  [API_URL            |-> Text("https://gov.example", TRUE),
   AUTH0_DOMAIN       |-> Text("tenant.auth0.com", FALSE),
   AUTH0_CLIENT_ID    |-> Text("client-1", FALSE),
   AUTH0_API_AUDIENCE |-> Text("https://gov.example", FALSE)]

Forms ==
  {OfficeForm,
   [OfficeForm EXCEPT !.AUTH0_DOMAIN = Text("", TRUE)],
   [OfficeForm EXCEPT !.API_URL = Text("gov.example", FALSE)],
   FormOf(ShippedConfig)}

\* new URL(s) does not throw.
IsURL(s) == s \in {"https://gov.example", ShippedConfig.API_URL}

\* The save handler, lines 113-131.
Validation(cfg) ==
  IF \E f \in DOMAIN cfg : cfg[f] = "" THEN "required"
  ELSE IF ~IsURL(cfg.API_URL) \/ ~IsURL(cfg.AUTH0_API_AUDIENCE) THEN "invalid"
  ELSE "ok"

\* The save handler, lines 141-163: response.success of an undefined
\* response throws, and the catch block reports the error.
SaveStatus(response) ==
  IF response = Undefined THEN "save-error"
  ELSE IF response.success THEN "saved"
  ELSE "save-failed"

\* The popup is opened and its configuration panel shown: initializeConfig
\* and loadConfigurationForm.
PopupShowsPanel ==
  /\ popup.CONFIG = Null
  /\ LET response == OnMessage([type |-> "GET_CONFIG"])
     IN popup' = [popup EXCEPT !.CONFIG = response, !.form = FormOf(response)]
  /\ UNCHANGED <<CONFIG, tabs, authVars, claude, controllerVars>>

PopupEditsForm ==
  /\ popup.CONFIG # Null
  /\ \E form \in Forms : form # popup.form /\ popup' = [popup EXCEPT !.form = form]
  /\ UNCHANGED <<CONFIG, tabs, authVars, claude, controllerVars>>

\* The click handler of the save button.
PopupSaveClicked ==
  /\ popup.CONFIG # Null
  /\ LET cfg == ConfigOf(popup.form)
         message == [type |-> "SAVE_CONFIG", config |-> cfg]
         status == SaveStatus(OnMessage(message))
     IN IF Validation(cfg) # "ok"
        THEN /\ popup' = [popup EXCEPT !.status = Validation(cfg)]
             /\ CONFIG' = CONFIG
        ELSE /\ popup' = [popup EXCEPT !.status = status,
                                       !.sent = cfg,
                                       !.CONFIG = IF status = "saved" THEN cfg ELSE @]
             /\ CONFIG' = ConfigAfter(message)
  /\ UNCHANGED <<tabs, authVars, claude, controllerVars>>

\* The click handler of the reset button, confirmed by the user.
PopupResetClicked ==
  /\ popup.CONFIG # Null
  /\ LET message == [type |-> "RESET_CONFIG"]
         response == OnMessage(message)
     IN /\ popup' = IF response = Undefined
                    THEN [popup EXCEPT !.status = "reset-error"]
                    ELSE IF response.success
                    THEN [popup EXCEPT !.status = "reset", !.CONFIG = ShippedConfig,
                                       !.form = FormOf(ShippedConfig)]
                    ELSE popup
        /\ CONFIG' = ConfigAfter(message)
  /\ UNCHANGED <<tabs, authVars, claude, controllerVars>>

PopupCloses ==
  /\ popup.CONFIG # Null
  /\ popup' = [popup EXCEPT !.CONFIG = Null, !.form = EmptyForm, !.status = ""]
  /\ UNCHANGED <<CONFIG, tabs, authVars, claude, controllerVars>>

\* A content script starts in a tab and asks for the configuration
\* (initializeConfig of chatgpt.js); seen is the configuration the popup had
\* sent to be saved by then.
TabLoadsConfig ==
  /\ \E t \in DOMAIN tabs :
       /\ IF tabs[t] = Null THEN TRUE ELSE tabs[t].seen # popup.sent
       /\ tabs' = [tabs EXCEPT ![t] = [config |-> OnMessage([type |-> "GET_CONFIG"]),
                                       seen |-> popup.sent]]
  /\ UNCHANGED <<CONFIG, popup, authVars, claude, controllerVars>>

ConfigNext ==
  \/ PopupShowsPanel
  \/ PopupEditsForm
  \/ PopupSaveClicked
  \/ PopupResetClicked
  \/ PopupCloses
  \/ TabLoadsConfig

ConfigInit == ControllerStart /\ config = ShippedFeatures /\ ExtensionStart

ConfigSpec == ConfigInit /\ [][ConfigNext]_vars

(***************************************************************************)
(* C22.  A valid configuration sent by the popup is acknowledged as saved, *)
(* and from then on GET_CONFIG is answered with the saved values, in the   *)
(* popup and in every tab that loads its configuration afterwards.         *)
(***************************************************************************)
C22_SavedConfigApplies ==
  /\ popup.status \notin {"save-error", "save-failed"}
  /\ popup.sent # Null => OnMessage([type |-> "GET_CONFIG"]) = popup.sent
  /\ \A t \in DOMAIN tabs :
       (tabs[t] # Null /\ tabs[t].seen # Null) => tabs[t].config = tabs[t].seen

(***************************************************************************)
(* Authentication: handleAuth0Login and handleAuth0Callback of the service *)
(* worker, the page auth-callback.html, and Auth0Client.logout().          *)
(***************************************************************************)
MaxLogins == 2

MaxCallbacks == 2

MS_PER_SECOND == 1000

\* data.expires_in of the token endpoint, in seconds.
TokenLifetimes == {1}

\* generateRandomString(): 32 random bytes, a value no earlier call returned.
IssuedState(n) == [random |-> n]

\* A state parameter made up by whoever wrote the URL.
ForgedState == [random |-> 0]

\* A number stored under auth0_token_expiry.
Expiry(ms) == [ms |-> ms]

\* data.access_token of the exchange made by the k-th callback.
AccessToken(k) == [jwt |-> k]

\* The code and error parameters of a redirect from Auth0.
AuthCode == [code |-> "authorization code"]

AccessDenied == [error |-> "access_denied"]

\* The URLs auth-callback.html is loaded with: Auth0's redirect of a login
\* started by the worker, the same URL loaded again, a URL with a made-up or
\* missing state, an error redirect, and a URL with no code.
CallbackUrls ==
  {[code |-> AuthCode, state |-> s, error |-> Null] :
     s \in {IssuedState(n) : n \in 1..logins} \cup {ForgedState, Null}}
  \cup {[code |-> Null, state |-> Null, error |-> AccessDenied],
        [code |-> Null, state |-> ForgedState, error |-> Null]}

\* Line 238 with != in place of !==: undefined and null are equal.
StateMatches_Loose(stored, state) ==
  \/ stored = state
  \/ stored \in {Undefined, Null} /\ state \in {Undefined, Null}

\* Line 238: stored.auth0_state !== state is false.
StateMatches(stored, state) == stored = state

\* handleAuth0Login, lines 142-152.
Auth0Login ==
  /\ logins < MaxLogins
  /\ logins' = logins + 1
  /\ session' = [auth0_state |-> IssuedState(logins + 1)]
  /\ UNCHANGED <<local, callbacks, authClient, backend, configVars, claude, controllerVars>>

Callback(url, sent, stored, at) ==
  [url |-> url, sent |-> sent, stored |-> stored, pc |-> at, success |-> FALSE]

\* handleCallback of auth-callback.js up to its sendMessage, and
\* handleAuth0Callback up to its fetch (lines 232-245).
CallbackPageLoads ==
  /\ Len(callbacks) < MaxCallbacks
  /\ \E url \in CallbackUrls :
       LET stored == session.auth0_state
       IN callbacks' = Append(callbacks,
            IF url.error # Null \/ url.code = Null
            THEN Callback(url, FALSE, Undefined, "closed")
            ELSE IF StateMatches(stored, url.state)
            THEN Callback(url, TRUE, stored, "exchange")
            ELSE Callback(url, TRUE, stored, "answered"))
  /\ UNCHANGED <<session, local, logins, authClient, backend, configVars, claude,
                 controllerVars>>

\* The token endpoint answers (lines 258-277): the token and its expiry are
\* stored and the state removed, or the handler throws and answers
\* success: false.
ExchangeAnswers ==
  /\ \E k \in DOMAIN callbacks :
       /\ callbacks[k].pc = "exchange"
       /\ \E ok \in BOOLEAN, lifetime \in TokenLifetimes :
            IF ok
            THEN /\ local' = [auth0_token |-> AccessToken(k),
                              auth0_token_expiry |-> Expiry(now + lifetime * MS_PER_SECOND)]
                 /\ session' = [auth0_state |-> Undefined]
                 /\ callbacks' = [callbacks EXCEPT ![k].pc = "answered",
                                                   ![k].success = TRUE]
            ELSE /\ callbacks' = [callbacks EXCEPT ![k].pc = "answered"]
                 /\ UNCHANGED <<session, local>>
  /\ UNCHANGED <<logins, authClient, backend, configVars, claude, controllerVars>>

\* Auth0Client.getToken, lines 20-41: the token it resolves with.
GetToken(store, time) ==
  IF store.auth0_token = Undefined \/ store.auth0_token_expiry = Undefined THEN Null
  ELSE IF time > store.auth0_token_expiry.ms THEN Null
  ELSE store.auth0_token

\* Auth0Client.getToken, line 33: an expired token is removed.
StoreAfterGetToken(store, time) ==
  IF store.auth0_token # Undefined /\ store.auth0_token_expiry # Undefined
     /\ time > store.auth0_token_expiry.ms
  THEN [auth0_token |-> Undefined, auth0_token_expiry |-> Undefined]
  ELSE store

\* logout() up to the end of its await this.clearToken() (lines 170-171);
\* ended is the token of the session being ended.
LogoutCalled ==
  /\ authClient.pc \in {"idle", "done"}
  /\ authClient' = [pc |-> "cleared", ended |-> GetToken(local, now)]
  /\ local' = [auth0_token |-> Undefined, auth0_token_expiry |-> Undefined]
  /\ UNCHANGED <<session, logins, callbacks, backend, configVars, claude, controllerVars>>

\* logout(), lines 174-186: the token read back and, if there is one, the
\* POST to /users/logout with it.
LogoutCallsBackend ==
  /\ authClient.pc = "cleared"
  /\ LET token == GetToken(local, now)
     IN backend' = IF token # Null THEN backend \cup {token} ELSE backend
  /\ local' = StoreAfterGetToken(local, now)
  /\ authClient' = [authClient EXCEPT !.pc = "done"]
  /\ UNCHANGED <<session, logins, callbacks, configVars, claude, controllerVars>>

\* Time passes while a token is stored: up to its expiry, and past it.
TokenAges ==
  /\ ticks < MaxTicks
  /\ local.auth0_token # Undefined
  /\ \E d \in {lifetime * MS_PER_SECOND : lifetime \in TokenLifetimes} \cup {1} :
       now' = now + d
  /\ ticks' = ticks + 1
  /\ UNCHANGED <<config, inputText, isIntercepting, isProgrammaticTrigger,
                 lastProcessedPrompt, lastProcessedTime, pc, variants, timers, attempts,
                 latest, scan, hostEvent, configVars, authVars, claude>>

AuthNext ==
  \/ Auth0Login
  \/ CallbackPageLoads
  \/ ExchangeAnswers
  \/ LogoutCalled
  \/ LogoutCallsBackend
  \/ TokenAges

AuthInit == ControllerStart /\ config = ShippedFeatures /\ ExtensionStart

AuthSpec == AuthInit /\ [][AuthNext]_vars

(***************************************************************************)
(* C28.  A callback is answered with success only when its state is the    *)
(* one a login stored and no callback has consumed; the stored token       *)
(* changes to a new token only in the step of such a callback; and a       *)
(* callback that is refused (mismatch, replay, no login) or fails leaves   *)
(* the stored token and expiry as they were.                               *)
(***************************************************************************)
C28_TokenOnlyForMatchingState ==
  /\ [](\A k \in DOMAIN callbacks :
          callbacks[k].success =>
            /\ callbacks[k].url.state = callbacks[k].stored
            /\ \E n \in 1..logins : callbacks[k].stored = IssuedState(n))
  /\ [][(local'.auth0_token # local.auth0_token /\ local'.auth0_token # Undefined) =>
          \E k \in DOMAIN callbacks :
             /\ callbacks[k].pc = "exchange"
             /\ callbacks'[k].success
             /\ local'.auth0_token = AccessToken(k)]_vars
  /\ [][(\E k \in DOMAIN callbacks' :
           /\ ~callbacks'[k].success
           /\ callbacks'[k].pc \in {"answered", "closed"}
           /\ (k \notin DOMAIN callbacks \/ callbacks[k].pc = "exchange")
           /\ callbacks' # callbacks)
          => local' = local]_vars

\* A callback was accepted and has stored its token; the same URL loaded
\* again was refused and the token is still the first one.
C28_Witness ==
  \E j, k \in DOMAIN callbacks :
    /\ j < k
    /\ callbacks[j].success
    /\ callbacks[k].sent
    /\ callbacks[k].pc = "answered"
    /\ ~callbacks[k].success
    /\ callbacks[k].url = callbacks[j].url
    /\ callbacks[k].stored = Undefined
    /\ local.auth0_token = AccessToken(j)

(***************************************************************************)
(* C29.  When logout() has run for a user who was logged in with an        *)
(* unexpired token, the backend has received POST /users/logout with the   *)
(* bearer token of that session.                                           *)
(***************************************************************************)
C29_LogoutReachesBackend ==
  (authClient.pc = "done" /\ authClient.ended # Null) => authClient.ended \in backend

(***************************************************************************)
(* claude.js.  interceptPrompt is called by the capturing click listener   *)
(* for every click on the send button and by the keydown listener for      *)
(* Ctrl+Enter (lines 148-173); the file keeps no flag that tells its own   *)
(* click from the user's.  rounds counts the calls of interceptPrompt that *)
(* prevented their event since the user's submit intent, clicks the calls  *)
(* of sendBtn.click(), delivered the clicks that reached the host, alerts  *)
(* and modals the alert boxes and variant modals shown.                    *)
(***************************************************************************)
MaxRounds == 3

\* interceptPrompt, lines 120-134: usage logging, then the click.
AfterVariants == IF config.USAGE_LOGGING THEN "logUsage" ELSE "click"

\* interceptPrompt, lines 67-101 and 120-134: where a call that prevented its
\* event is suspended first.  alert() of line 76 returns when the user has
\* dismissed it.
FirstAwait ==
  IF ShouldBlock(config, Detect(OriginalPrompt)) THEN "createAlert"
  ELSE IF WantsVariants(config, OriginalPrompt) THEN "getVariants"
  ELSE AfterVariants

Intercepted(c) ==
  [c EXCEPT !.rounds = @ + 1,
            !.pc = FirstAwait,
            !.alerts = IF FirstAwait = "createAlert" THEN @ + 1 ELSE @]

ClaudeUserTypes ==
  /\ ~hostEvent
  /\ claude.pc # "click"
  /\ \E t \in UserTexts : t # inputText /\ inputText' = t
  /\ UNCHANGED <<claude, config, isIntercepting, isProgrammaticTrigger, lastProcessedPrompt,
                 lastProcessedTime, now, ticks, pc, variants, timers, attempts, latest,
                 scan, hostEvent, configVars, authVars>>

\* The user clicks the send button or presses Ctrl+Enter: lines 60-68.
ClaudeUserSubmits ==
  /\ ~hostEvent
  /\ claude.pc = "idle"
  /\ IF Truthy(OriginalPrompt)
     THEN /\ claude' = Intercepted(ClaudeIdle)
          /\ hostEvent' = FALSE
     ELSE /\ claude' = claude
          /\ hostEvent' = TRUE
  /\ UNCHANGED <<config, inputText, isIntercepting, isProgrammaticTrigger,
                 lastProcessedPrompt, lastProcessedTime, now, ticks, pc, variants, timers,
                 attempts, latest, scan, configVars, authVars>>

ClaudeStep(c) ==
  /\ ~hostEvent
  /\ claude' = c
  /\ UNCHANGED <<controllerVars, configVars, authVars>>

\* createAlert settles (lines 78-87): resolved, the call returns; rejected,
\* the catch block of lines 136-141 clicks the send button.
ClaudeAlertLogged ==
  /\ claude.pc = "createAlert"
  /\ \E next \in {"idle", "click"} : ClaudeStep([claude EXCEPT !.pc = next])

\* getPromptVariants resolves and the modal opens (lines 96-101).
ClaudeVariantsArrive ==
  /\ claude.pc = "getVariants"
  /\ ClaudeStep([claude EXCEPT !.pc = "modal", !.modals = @ + 1])

\* getPromptVariants rejects: the catch of line 115.
ClaudeVariantsFail ==
  /\ claude.pc = "getVariants"
  /\ ClaudeStep([claude EXCEPT !.pc = AfterVariants])

\* The modal resolves (lines 98-117): apiClient.logPromptChoice is not a
\* function of APIClient, the call throws, and the catch of line 115 skips
\* setInputText.
ClaudeModalResolves ==
  /\ claude.pc = "modal"
  /\ ClaudeStep([claude EXCEPT !.pc = AfterVariants])

\* hashPrompt and logUsage settle (lines 121-128): resolved, line 133 clicks;
\* rejected, line 140 does.
ClaudeUsageLogged ==
  /\ claude.pc = "logUsage"
  /\ ClaudeStep([claude EXCEPT !.pc = "click"])

\* sendBtn.click() (lines 131-134, 138-141): the click listener of line 151
\* calls interceptPrompt for it as for any click on the send button.
ClaudeClicks ==
  /\ ~hostEvent
  /\ claude.pc = "click"
  /\ claude.rounds < MaxRounds
  /\ IF Truthy(OriginalPrompt)
     THEN /\ claude' = Intercepted([claude EXCEPT !.clicks = @ + 1])
          /\ hostEvent' = FALSE
     ELSE /\ claude' = [claude EXCEPT !.clicks = @ + 1, !.delivered = @ + 1, !.pc = "idle"]
          /\ hostEvent' = TRUE
  /\ UNCHANGED <<config, inputText, isIntercepting, isProgrammaticTrigger,
                 lastProcessedPrompt, lastProcessedTime, now, ticks, pc, variants, timers,
                 attempts, latest, scan, configVars, authVars>>

ClaudeNext ==
  \/ ClaudeUserTypes
  \/ ClaudeUserSubmits
  \/ ClaudeAlertLogged
  \/ ClaudeVariantsArrive
  \/ ClaudeVariantsFail
  \/ ClaudeModalResolves
  \/ ClaudeUsageLogged
  \/ ClaudeClicks
  \/ HostHandlesEvent

ClaudeInit == ControllerStart /\ ExtensionStart

ClaudeSpec == ClaudeInit /\ [][ClaudeNext]_vars

(***************************************************************************)
(* C30.  A submission intercepted on claude.ai is intercepted once: the    *)
(* click made after its processing is made once, reaches the host, and is  *)
(* not taken for a new submission.                                         *)
(***************************************************************************)
C30_ClickDeliveredOnce ==
  /\ claude.rounds <= 1
  /\ claude.clicks <= 1
  /\ claude.pc # "click" => claude.delivered = claude.clicks

====
